---- MODULE Spec2Model ----
(***************************************************************************)
(* Model of the metadata-extraction pipeline of the reading backlog:       *)
(* services/scraper.py (scrape_pdf, scrape_html, extract_pdf_metadata,     *)
(* merge_tags, clean_text) and services/llm.py (is_ollama_running,         *)
(* extract_with_llm, parse_llm_response).                                  *)
(***************************************************************************)
EXTENDS Integers, Sequences, FiniteSets, TLC

(***************************************************************************)
(* Python strings.  A str is a run-length encoded sequence of characters:  *)
(* <<[c |-> "a", n |-> 150], [c |-> " ", n |-> 2]>> is 150 letters "a"      *)
(* followed by two blanks.  Strings are kept canonical: no empty run, no   *)
(* two adjacent runs of the same character.                                *)
(***************************************************************************)
Run(c, n) == [c |-> c, n |-> n]

IsSpace(c) == c \in {" ", "\n", "\t"}

RECURSIVE StrLen(_)
StrLen(s) == IF s = <<>> THEN 0 ELSE Head(s).n + StrLen(Tail(s))

AppendRun(s, r) ==
    IF r.n <= 0 THEN s
    ELSE IF s # <<>> /\ s[Len(s)].c = r.c
         THEN [s EXCEPT ![Len(s)].n = @ + r.n]
         ELSE Append(s, r)

RECURSIVE Concat(_, _)
Concat(s, t) == IF t = <<>> THEN s ELSE Concat(AppendRun(s, Head(t)), Tail(t))

RECURSIVE Lit(_)
Lit(chars) ==
    IF chars = <<>> THEN <<>>
    ELSE Concat(<<Run(Head(chars), 1)>>, Lit(Tail(chars)))

RECURSIVE Slice(_, _)
Slice(s, k) ==
    IF s = <<>> \/ k <= 0 THEN <<>>
    ELSE IF Head(s).n >= k THEN <<Run(Head(s).c, k)>>
         ELSE <<Head(s)>> \o Slice(Tail(s), k - Head(s).n)

RECURSIVE LStrip(_)
LStrip(s) == IF s # <<>> /\ IsSpace(Head(s).c) THEN LStrip(Tail(s)) ELSE s

RECURSIVE RStrip(_)
RStrip(s) ==
    IF s # <<>> /\ IsSpace(s[Len(s)].c) THEN RStrip(SubSeq(s, 1, Len(s) - 1)) ELSE s

Strip(s) == RStrip(LStrip(s))

EndsWith(s, suffix) ==
    /\ StrLen(s) >= StrLen(suffix)
    /\ \E k \in 0..StrLen(s) :
          /\ k + StrLen(suffix) = StrLen(s)
          /\ Concat(Slice(s, k), suffix) = s

RECURSIVE SubSpaces(_, _)
SubSpaces(s, afterSpace) ==
    IF s = <<>> THEN <<>>
    ELSE IF IsSpace(Head(s).c)
         THEN (IF afterSpace THEN <<>> ELSE <<Run(" ", 1)>>) \o SubSpaces(Tail(s), TRUE)
         ELSE <<Head(s)>> \o SubSpaces(Tail(s), FALSE)

clean_text(text) ==
    IF text = <<>> THEN <<>> ELSE Strip(SubSpaces(text, FALSE))

Ellipsis == <<Run(".", 3)>>

Min(a, b) == IF a <= b THEN a ELSE b

(***************************************************************************)
(* Optional values: None is the empty sequence, a present value v is <<v>>.*)
(***************************************************************************)
None == <<>>
Some(v) == <<v>>

(***************************************************************************)
(* Program constants.                                                      *)
(***************************************************************************)
MAX_TEXT_LENGTH == 6000
MinTextLength == 50
SummaryLength == 200
MaxTags == 6
MaxPdfPages == 5

(***************************************************************************)
(* Bounds of the model.                                                    *)
(***************************************************************************)
MaxUserTags == 7
MaxSuggestedTags == 7
MaxShortTags == 2

(***************************************************************************)
(* Tags.  str.lower() maps each upper-case letter to its lower-case one.   *)
(***************************************************************************)
UpperCase ==
    <<"A", "B", "C", "D", "E", "F", "G", "H", "I", "J", "K", "L", "M",
      "N", "O", "P", "Q", "R", "S", "T", "U", "V", "W", "X", "Y", "Z">>
LowerCase ==
    <<"a", "b", "c", "d", "e", "f", "g", "h", "i", "j", "k", "l", "m",
      "n", "o", "p", "q", "r", "s", "t", "u", "v", "w", "x", "y", "z">>

LowerChar(c) ==
    IF \E i \in 1..Len(UpperCase) : UpperCase[i] = c
    THEN LowerCase[CHOOSE i \in 1..Len(UpperCase) : UpperCase[i] = c]
    ELSE c

RECURSIVE str_lower(_)
str_lower(s) ==
    IF s = <<>> THEN <<>>
    ELSE Concat(<<Run(LowerChar(Head(s).c), Head(s).n)>>, str_lower(Tail(s)))

T_AI == Lit(<<"A", "I">>)
T_ai == Lit(<<"a", "i">>)
T_ml == Lit(<<"m", "l">>)
T_ML == Lit(<<"M", "L">>)

TagPool ==
    << T_AI, T_ml, Lit(<<"w", "e", "b">>), Lit(<<"g", "o">>), Lit(<<"d", "b">>),
       Lit(<<"o", "s">>), Lit(<<"u", "x">>), Lit(<<"q", "a">>), Lit(<<"c", "i">>) >>

SuggestedPool ==
    << T_ai, Lit(<<"n", "l", "p">>), T_ml, Lit(<<"r", "l">>), Lit(<<"c", "v">>),
       Lit(<<"h", "w">>), Lit(<<"o", "s">>), Lit(<<"p", "l">>), Lit(<<"k", "v">>) >>

Cycle(pool, n) == [i \in 1..n |-> pool[((i - 1) % Len(pool)) + 1]]

SeqsUpTo(S, n) == UNION {[1..k -> S] : k \in 0..n}

UserTagLists ==
    SeqsUpTo({T_AI, T_ai, T_ml}, MaxShortTags)
        \cup {Cycle(TagPool, n) : n \in 3..MaxUserTags}

SuggestedTagLists ==
    SeqsUpTo({T_ai, T_ml, T_ML}, MaxShortTags)
        \cup {Cycle(SuggestedPool, n) : n \in 3..MaxSuggestedTags}

(***************************************************************************)
(* merge_tags (scraper.py 157-165).                                        *)
(***************************************************************************)
RECURSIVE AppendSuggested(_, _, _)
AppendSuggested(all_tags, user_tags_lower, suggested_tags) ==
    IF suggested_tags = <<>> THEN all_tags
    ELSE AppendSuggested(
            IF str_lower(Head(suggested_tags)) \notin user_tags_lower
            THEN Append(all_tags, Head(suggested_tags))
            ELSE all_tags,
            user_tags_lower, Tail(suggested_tags))

LowerSet(tags) == {str_lower(tags[i]) : i \in 1..Len(tags)}

merge_tags_unlimited(user_tags, suggested_tags) ==
    AppendSuggested(user_tags, LowerSet(user_tags), suggested_tags)

merge_tags_suggested_first(user_tags, suggested_tags) ==
    SubSeq(suggested_tags \o user_tags, 1,
           Min(MaxTags, Len(suggested_tags) + Len(user_tags)))

merge_tags(user_tags, suggested_tags) ==
    LET all_tags == AppendSuggested(user_tags, LowerSet(user_tags), suggested_tags)
    IN  SubSeq(all_tags, 1, Min(MaxTags, Len(all_tags)))

(***************************************************************************)
(* JSON values as json.loads returns them.  A string member of an object   *)
(* is StrVal(s) or NullVal; the tag list is TagsVal(l) or NullTags.  A JSON *)
(* list holds strings; a JSON string is kept as its sequence of words, so  *)
(* that Python's `"title" in value` is membership in items for both.       *)
(***************************************************************************)
StrVal(s) == [null |-> FALSE, s |-> s]
NullVal == [null |-> TRUE, s |-> <<>>]
TagsVal(l) == [null |-> FALSE, l |-> l]
NullTags == [null |-> TRUE, l |-> <<>>]

JObject(has, title, summary, tags) ==
    [kind |-> "object", has |-> has, title |-> title, summary |-> summary,
     tags |-> tags, items |-> <<>>]
JOther(kind, items) ==
    [kind |-> kind, has |-> {}, title |-> NullVal, summary |-> NullVal,
     tags |-> NullTags, items |-> items]
JNull == JOther("null", <<>>)

A(n) == <<Run("a", n)>>
T_title == Lit(<<"T", "i", "t", "l", "e">>)
S_short == Concat(A(40), Concat(<<Run(" ", 1)>>, A(39)))
S_long == Concat(A(150), Concat(<<Run(" ", 1)>>, A(149)))

AllKeys == {"title", "summary", "suggested_tags"}
GoodObject(tags) == JObject(AllKeys, StrVal(T_title), StrVal(S_short), TagsVal(tags))

(***************************************************************************)
(* A model reply, by what each parsing stage of parse_llm_response sees:   *)
(* whole is json.loads of the full text (None: JSONDecodeError); flat and  *)
(* greedy are the spans of the two regular expressions, with match FALSE   *)
(* when re.search finds nothing and v = None when json.loads rejects it.   *)
(***************************************************************************)
NoMatch == [match |-> FALSE, v |-> None]
Span(v) == [match |-> TRUE, v |-> v]
Reply(whole, flat, greedy) == [whole |-> whole, flat |-> flat, greedy |-> greedy]
Whole(v) == Reply(Some(v), NoMatch, NoMatch)

Responses ==
    { \* {"title": "Title", "summary": "...", "suggested_tags": ["ai", "ml"]}
      Whole(GoodObject(<<T_ai, T_ml>>)),
      \* the same with "suggested_tags": ["ml", "ML"]
      Whole(GoodObject(<<T_ml, T_ML>>)),
      \* the same with seven suggested tags
      Whole(GoodObject(Cycle(SuggestedPool, MaxSuggestedTags))),
      \* {"title": "Title", "summary": "..."}
      Whole(JObject({"title", "summary"}, StrVal(T_title), StrVal(S_short), NullTags)),
      \* {"title": "Title", "summary": <300 characters>, "suggested_tags": []}
      Whole(JObject(AllKeys, StrVal(T_title), StrVal(S_long), TagsVal(<<>>))),
      \* {"title": "", "summary": "...", "suggested_tags": []}
      Whole(JObject(AllKeys, StrVal(<<>>), StrVal(S_short), TagsVal(<<>>))),
      \* {"title": null, "summary": "...", "suggested_tags": ["ai"]}
      Whole(JObject(AllKeys, NullVal, StrVal(S_short), TagsVal(<<T_ai>>))),
      \* {"title": "Title", "summary": "...", "suggested_tags": null}
      Whole(JObject(AllKeys, StrVal(T_title), StrVal(S_short), NullTags)),
      \* {"summary": "..."}
      Whole(JObject({"summary"}, NullVal, StrVal(S_short), NullTags)),
      \* {"title": "Title"}
      Whole(JObject({"title"}, StrVal(T_title), NullVal, NullTags)),
      \* {}
      Whole(JObject({}, NullVal, NullVal, NullTags)),
      \* ["title", "summary"]
      Whole(JOther("list", <<"title", "summary">>)),
      \* ["ai", "ml"]
      Whole(JOther("list", <<"ai", "ml">>)),
      \* "the title and the summary"
      Whole(JOther("string", <<"the", "title", "and", "the", "summary">>)),
      \* 42
      Whole(JOther("number", <<>>)),
      \* null
      Whole(JNull),
      \* Here is the JSON: {"title": "Title", "summary": "...", "suggested_tags": ["ai"]} Enjoy!
      Reply(None, Span(Some(GoodObject(<<T_ai>>))), Span(None)),
      \* Sure: {"title": "{x}", "summary": "...", "suggested_tags": ["ai"]}
      Reply(None, Span(None), Span(Some(GoodObject(<<T_ai>>)))),
      \* Sure: {"title": "Title", "summary": "...", "meta": {"k": 1}}
      Reply(None, Span(Some(JObject({"k"}, NullVal, NullVal, NullTags))),
            Span(Some(GoodObject(<<>>)))),
      \* I found {nothing useful} in it
      Reply(None, Span(None), Span(None)),
      \* Sorry, I cannot help with that.
      Reply(None, NoMatch, NoMatch) }

(***************************************************************************)
(* parse_llm_response (llm.py 95-119): the first stage that parses wins.   *)
(* json.loads maps JSON null to Python None.                               *)
(***************************************************************************)
PyValue(v) == IF v.kind = "null" THEN None ELSE Some(v)

parse_llm_response(response) ==
    IF response.whole # None THEN PyValue(response.whole[1])
    ELSE IF response.flat.match /\ response.flat.v # None
         THEN PyValue(response.flat.v[1])
    ELSE IF response.greedy.match /\ response.greedy.v # None
         THEN PyValue(response.greedy.v[1])
    ELSE None

(***************************************************************************)
(* Python truthiness and the `in` operator on a parsed value.              *)
(***************************************************************************)
Truthy(r) ==
    /\ r # None
    /\ CASE r[1].kind = "object" -> r[1].has # {}
         [] r[1].kind \in {"list", "string"} -> r[1].items # <<>>
         [] OTHER -> TRUE

SupportsIn(v) == v.kind \in {"object", "list", "string"}

Contains(v, key) ==
    IF v.kind = "object" THEN key \in v.has
    ELSE \E i \in 1..Len(v.items) : v.items[i] = key

(***************************************************************************)
(* extract_with_llm (llm.py 45-92).                                        *)
(***************************************************************************)
TruncationMarker ==
    Lit(<<"\n", "\n", "[", "T", "e", "x", "t", " ", "t", "r", "u", "n", "c", "a",
          "t", "e", "d", ".", ".", ".", "]">>)

TruncateText(text) ==
    IF StrLen(text) > MAX_TEXT_LENGTH
    THEN Concat(Slice(text, MAX_TEXT_LENGTH), TruncationMarker)
    ELSE text

TooShort(text) == StrLen(Strip(text)) < MinTextLength

Returned(val) == [exc |-> "none", val |-> val]
Raised(exc) == [exc |-> exc, val |-> None]

\* lines 85-88
CheckResult(result) ==
    IF ~Truthy(result) THEN Returned(None)
    ELSE IF ~SupportsIn(result[1]) THEN Raised("TypeError")
    ELSE IF Contains(result[1], "title") /\ Contains(result[1], "summary")
         THEN Returned(result)
         ELSE Returned(None)

\* lines 69-88: generate either raises or answers
LlmTry(outcome) ==
    IF outcome.raised THEN Raised("Exception")
    ELSE CheckResult(parse_llm_response(outcome.response))

LlmExceptMissing(r) == r

\* lines 90-92
LlmExcept(r) == IF r.exc # "none" THEN Returned(None) ELSE r

(***************************************************************************)
(* Documents.  A PDF is what pymupdf reads from it (or corrupt: fitz.open  *)
(* raises); a page of HTML is what trafilatura and the <title> regular     *)
(* expression return for it.  An absent string (None) and the empty string *)
(* are both <<>> where the code tests them by truthiness only.  A URL is   *)
(* its host and port, the netloc urlparse makes of them, and the stem of   *)
(* its path's last segment.  The <title> elements of a page are listed in  *)
(* document order, each with its tag name as written and its raw content.  *)
(***************************************************************************)
Colon == Lit(<<":">>)

\* urlparse(url).netloc is host[:port]
UrlAt(host, port, stem) ==
    [netloc |-> IF port = <<>> THEN host ELSE Concat(host, Concat(Colon, port)),
     host |-> host, port |-> port, stem |-> stem]

Url(netloc, stem) == UrlAt(netloc, <<>>, stem)

TitleElement(tag, text) == [tag |-> tag, text |-> text]

PdfDoc(corrupt, meta_title, pages, blocks, url) ==
    [kind |-> "pdf", corrupt |-> corrupt, meta_title |-> meta_title, pages |-> pages,
     blocks |-> blocks, extracted |-> <<>>, titles |-> <<>>, url |-> url,
     read_error |-> "none"]

\* a document pymupdf opens but cannot read through: page.get_text() raises
\* ("page") or first_page.get_text("blocks") raises ("blocks")
Unreadable(d, where) == [d EXCEPT !.read_error = where]

HtmlDoc(extracted, meta_title, titles, url) ==
    [kind |-> "html", corrupt |-> FALSE, meta_title |-> meta_title, pages |-> <<>>,
     blocks |-> <<>>, extracted |-> extracted, titles |-> titles, url |-> url,
     read_error |-> "none"]

Blank(n) == <<Run(" ", n)>>
Tx(a, gap, b) == Concat(A(a), Concat(gap, A(b)))

Texts ==
    { <<>>,                                \* no text
      Tx(10, Blank(1), 19),                \* 30 characters
      Tx(50, Blank(1), 69),                \* 120 characters
      Tx(100, Blank(1), 99),               \* 200 characters
      Tx(100, Blank(1), 100),              \* 201 characters
      Tx(90, <<Run("\n", 80)>>, 90),       \* 260 characters, 181 once normalized
      Tx(250, Blank(1), 249),              \* 500 characters
      Tx(3000, Blank(1), 3999),            \* 7000 characters
      Concat(A(3), Blank(6000)),           \* 3 characters and 6000 blanks
      Blank(6100) }                        \* blanks only

U_plain == Url(Lit(<<"x", ".", "i", "o">>), Lit(<<"m", "y", "_", "d", "o", "c">>))
U_www == Url(Lit(<<"w", "w", "w", ".", "x", ".", "i", "o">>), <<>>)
T_meta == Lit(<<"M", "e", "t", "a">>)
T_head == Lit(<<"H", "e", "a", "d", "i", "n", "g">>)
U_port ==
    UrlAt(Lit(<<"w", "w", "w", ".", "x", ".", "i", "o">>), Lit(<<"8", "0", "8", "0">>), <<>>)
TagTitle == Lit(<<"t", "i", "t", "l", "e">>)
TagTITLE == Lit(<<"T", "I", "T", "L", "E">>)
T_markup == Concat(T_head, Lit(<<" ", "<", " ", "b">>))
T_icon == Lit(<<"I", "c", "o", "n">>)

PdfDocs ==
    {PdfDoc(FALSE, T_meta, <<t>>, <<t>>, U_plain) : t \in Texts}
    \cup { PdfDoc(TRUE, <<>>, <<>>, <<>>, U_plain),
           PdfDoc(FALSE, <<>>, <<>>, <<>>, U_www),
           PdfDoc(FALSE, <<>>, <<A(60)>>, <<A(3)>>, U_port),
           PdfDoc(FALSE, Blank(2), <<A(60)>>, <<A(3), T_head, A(60)>>, U_plain),
           PdfDoc(FALSE, <<>>, <<A(60)>>, <<A(3), A(250), A(2), T_head>>, U_plain),
           PdfDoc(FALSE, T_meta, [i \in 1..(MaxPdfPages + 1) |-> A(40)], <<A(40)>>, U_plain),
           Unreadable(PdfDoc(FALSE, T_meta, <<A(60)>>, <<A(60)>>, U_plain), "page"),
           Unreadable(PdfDoc(FALSE, T_meta, <<A(60)>>, <<T_head>>, U_plain), "blocks"),
           Unreadable(PdfDoc(FALSE, <<>>, <<A(60)>>, <<T_head>>, U_plain), "blocks") }

HtmlDocs ==
    {HtmlDoc(t, T_meta, <<>>, U_plain) : t \in Texts}
    \cup { HtmlDoc(A(60), <<>>, <<TitleElement(TagTitle, Concat(Blank(1), T_head))>>, U_plain),
           HtmlDoc(A(60), <<>>, <<TitleElement(TagTITLE, T_head)>>, U_plain),
           HtmlDoc(A(60), T_meta, <<TitleElement(TagTitle, T_head)>>, U_plain),
           HtmlDoc(A(60), Blank(2), <<TitleElement(TagTitle, T_head)>>, U_plain),
           HtmlDoc(A(60), <<>>, <<TitleElement(TagTitle, Blank(3))>>, U_plain),
           HtmlDoc(A(60), <<>>, <<TitleElement(TagTitle, T_markup)>>, U_plain),
           HtmlDoc(A(60), <<>>, <<TitleElement(TagTitle, <<>>),
                                  TitleElement(TagTitle, T_icon)>>, U_plain),
           HtmlDoc(A(60), <<>>, <<TitleElement(TagTitle, T_head),
                                  TitleElement(TagTitle, T_icon)>>, U_plain),
           HtmlDoc(A(60), <<>>, <<>>, U_www),
           HtmlDoc(A(60), <<>>, <<>>, U_port),
           HtmlDoc(<<>>, <<>>, <<>>, U_www) }

(***************************************************************************)
(* Helpers of scraper.py.                                                  *)
(***************************************************************************)
RECURSIVE Drop(_, _)
Drop(s, k) ==
    IF s = <<>> \/ k <= 0 THEN s
    ELSE IF Head(s).n > k THEN <<Run(Head(s).c, Head(s).n - k)>> \o Tail(s)
         ELSE Drop(Tail(s), k - Head(s).n)

StartsWith(s, prefix) == Slice(s, StrLen(prefix)) = prefix

RECURSIVE Replace(_, _, _)
Replace(s, old, new) ==
    IF s = <<>> THEN <<>>
    ELSE Concat(<<Run(IF Head(s).c = old THEN new ELSE Head(s).c, Head(s).n)>>,
                Replace(Tail(s), old, new))

WwwDot == Lit(<<"w", "w", "w", ".">>)

\* scraper.py 22-29
extract_domain(url) ==
    IF StartsWith(url.netloc, WwwDot) THEN Drop(url.netloc, 4) ELSE url.netloc

\* scraper.py 56-63
extract_filename_from_url(url) == Replace(Replace(url.stem, "_", " "), "-", " ")

\* `needle in s` of two Python strings
In(needle, s) == \E k \in 0..StrLen(s) : StartsWith(Drop(s, k), needle)

DotPdf == Lit(<<".", "p", "d", "f">>)
ApplicationPdf ==
    Lit(<<"a", "p", "p", "l", "i", "c", "a", "t", "i", "o", "n", "/", "p", "d", "f">>)

\* scraper.py 41-53: path is urlparse(url).path, content_type may be None
is_pdf_url_case_sensitive(path, content_type) ==
    IF EndsWith(path, DotPdf) THEN TRUE
    ELSE IF content_type # None /\ content_type[1] # <<>>
            /\ In(ApplicationPdf, content_type[1])
         THEN TRUE
         ELSE FALSE

is_pdf_url(path, content_type) ==
    IF EndsWith(str_lower(path), DotPdf) THEN TRUE
    ELSE IF content_type # None /\ content_type[1] # <<>>
            /\ In(ApplicationPdf, str_lower(content_type[1]))
         THEN TRUE
         ELSE FALSE

\* the paths and Content-Type headers is_pdf_url is called with
P_doc == Lit(<<"/", "d", "o", "c">>)
UrlPaths ==
    { <<>>,
      P_doc,
      Concat(P_doc, DotPdf),
      Concat(P_doc, Lit(<<".", "P", "D", "F">>)),
      Concat(P_doc, Lit(<<".", "P", "d", "f">>)),
      Concat(P_doc, Lit(<<".", "p", "d", "f", "/">>)),
      Concat(P_doc, Lit(<<".", "p", "d", "f", "x">>)),
      Lit(<<"/", "p", "d", "f">>),
      DotPdf }
ContentTypes ==
    { None,
      Some(<<>>),
      Some(ApplicationPdf),
      Some(Lit(<<"A", "p", "p", "l", "i", "c", "a", "t", "i", "o", "n", "/", "P", "D", "F">>)),
      Some(Concat(ApplicationPdf, Lit(<<";", " ", "q", "=", "1">>))),
      Some(Concat(Lit(<<"x", ",", " ">>), ApplicationPdf)),
      Some(Lit(<<"a", "p", "p", "l", "i", "c", "a", "t", "i", "o", "n", "/", "x", "-", "p", "d", "f">>)),
      Some(Lit(<<"t", "e", "x", "t", "/", "h", "t", "m", "l">>)),
      Some(Lit(<<"a", "p", "p", "l", "i", "c", "a", "t", "i", "o", "n", "/", "p", "d">>)) }

DColon == Lit(<<"D", ":">>)
Dash == Lit(<<"-">>)

\* scraper.py 146-154: creationDate is metadata.get("creationDate")
extract_pdf_date(creationDate) ==
    IF creationDate = None \/ creationDate[1] = <<>> THEN None
    ELSE LET date_str == IF StartsWith(creationDate[1], DColon)
                         THEN Drop(creationDate[1], 2) ELSE creationDate[1]
         IN  IF StrLen(date_str) >= 8
             THEN Some(Concat(Slice(date_str, 4),
                       Concat(Dash,
                       Concat(Slice(Drop(date_str, 4), 2),
                       Concat(Dash, Slice(Drop(date_str, 6), 2))))))
             ELSE None

D_20230415 == Lit(<<"2", "0", "2", "3", "0", "4", "1", "5">>)
CreationDates ==
    { None,
      Some(<<>>),
      Some(Concat(DColon, Concat(D_20230415, Lit(<<"1", "2", "0", "0", "0", "0">>)))),
      Some(D_20230415),
      Some(Concat(DColon, Concat(D_20230415, Lit(<<"Z">>)))),
      Some(Concat(DColon, Lit(<<"2", "0", "2", "3">>))),
      Some(Lit(<<"2", "0", "2", "3", "0", "4", "1">>)),
      Some(Concat(DColon, Lit(<<"u", "n", "k", "n", "o", "w", "n", "!">>))),
      Some(Lit(<<"2", "0", "2", "3", "-", "0", "4", "-", "1", "5">>)),
      Some(Lit(<<"A", "p", "r", "i", "l", " ", "2", "0", "2", "3">>)) }

RECURSIVE JoinPages(_, _)
JoinPages(pages, n) ==
    IF pages = <<>> \/ n <= 0 THEN <<>>
    ELSE Concat(Head(pages), JoinPages(Tail(pages), n - 1))

\* scraper.py 84-88
FullText(d) == JoinPages(d.pages, MaxPdfPages)

RECURSIVE FirstHeading(_, _)
FirstHeading(blocks, n) ==
    IF blocks = <<>> \/ n <= 0 THEN <<>>
    ELSE LET potential_title == clean_text(Head(blocks))
         IN  IF Head(blocks) # <<>> /\ StrLen(potential_title) > 5
                                    /\ StrLen(potential_title) < 200
             THEN potential_title
             ELSE FirstHeading(Tail(blocks), n - 1)

OrElse(s, t) == IF s # <<>> THEN s ELSE t

PdfFrom == Lit(<<"P", "D", "F", " ", "f", "r", "o", "m", " ">>)
ArticleFrom == Lit(<<"A", "r", "t", "i", "c", "l", "e", " ", "f", "r", "o", "m", " ">>)

\* scraper.py 117: for block in blocks[:3]
MaxHeadingBlocks == 3

\* scraper.py 105-129
PdfTitleAllBlocks(d) ==
    OrElse(clean_text(d.meta_title),
    OrElse(IF Len(d.pages) > 0 THEN FirstHeading(d.blocks, Len(d.blocks)) ELSE <<>>,
    OrElse(extract_filename_from_url(d.url),
           Concat(PdfFrom, extract_domain(d.url)))))

PdfTitle(d) ==
    OrElse(clean_text(d.meta_title),
    OrElse(IF Len(d.pages) > 0 THEN FirstHeading(d.blocks, MaxHeadingBlocks) ELSE <<>>,
    OrElse(extract_filename_from_url(d.url),
           Concat(PdfFrom, extract_domain(d.url)))))

\* scraper.py 131-134 and 238-242
Summary(text) ==
    Concat(Slice(clean_text(text), SummaryLength),
           IF StrLen(text) > SummaryLength THEN Ellipsis ELSE <<>>)

HasChar(s, c) == \E i \in 1..Len(s) : s[i].c = c

\* scraper.py 232: re.search(r'<title[^>]*>([^<]+)</title>', html, re.IGNORECASE)
\* matches at the first <title> element, in any case, whose content is one or
\* more characters other than "<"; the result is group(1), or None
RECURSIVE TitleSearchCaseSensitive(_)
TitleSearchCaseSensitive(titles) ==
    IF titles = <<>> THEN None
    ELSE IF /\ Head(titles).tag = TagTitle
            /\ Head(titles).text # <<>>
            /\ ~HasChar(Head(titles).text, "<")
         THEN Some(Head(titles).text)
         ELSE TitleSearchCaseSensitive(Tail(titles))

RECURSIVE TitleSearch(_)
TitleSearch(titles) ==
    IF titles = <<>> THEN None
    ELSE IF /\ str_lower(Head(titles).tag) = TagTitle
            /\ Head(titles).text # <<>>
            /\ ~HasChar(Head(titles).text, "<")
         THEN Some(Head(titles).text)
         ELSE TitleSearch(Tail(titles))

\* scraper.py 227-236
HtmlTitle(d) ==
    LET title_match == TitleSearch(d.titles)
    IN  OrElse(clean_text(d.meta_title),
        OrElse(IF title_match # None THEN clean_text(title_match[1]) ELSE <<>>,
               Concat(ArticleFrom, extract_domain(d.url))))

HtmlSummary(d) == IF d.extracted # <<>> THEN Summary(d.extracted) ELSE <<>>

(***************************************************************************)
(* The records the extraction builds.                                      *)
(***************************************************************************)
Get(v, key, default) ==
    IF key \in v.has
    THEN (CASE key = "title" -> v.title [] key = "summary" -> v.summary [] OTHER -> v.tags)
    ELSE default

Meta(title, summary, suggested_tags, used_llm) ==
    [title |-> title, summary |-> summary, suggested_tags |-> suggested_tags,
     used_llm |-> used_llm]

\* scraper.py 96-103
PdfEnrichedUnflagged(v) ==
    Meta(Get(v, "title", StrVal(<<>>)), Get(v, "summary", StrVal(<<>>)),
         Get(v, "suggested_tags", TagsVal(<<>>)), FALSE)

PdfEnriched(v) ==
    Meta(Get(v, "title", StrVal(<<>>)), Get(v, "summary", StrVal(<<>>)),
         Get(v, "suggested_tags", TagsVal(<<>>)), TRUE)

\* scraper.py 136-143
PdfHeuristic(d) ==
    Meta(StrVal(PdfTitle(d)), StrVal(Summary(FullText(d))), TagsVal(<<>>), FALSE)

\* scraper.py 84-88: page.get_text() raises on one of the pages read
PagesReadRaises(d) == d.read_error = "page" /\ Len(d.pages) > 0

\* scraper.py 111-116: the document is opened again when the metadata give no
\* title, and get_text("blocks") raises on its first page
Reopened(d) == clean_text(d.meta_title) = <<>>
BlocksReadRaises(d) == Reopened(d) /\ Len(d.pages) > 0 /\ d.read_error = "blocks"

\* scraper.py 92-143, after the document has been read: llm_result is what
\* extract_with_llm returned, or None when it was not called.
PdfMetadata(d, llm_result) ==
    IF Truthy(llm_result)
    THEN IF llm_result[1].kind # "object"
         THEN Raised("AttributeError")
         ELSE Returned(Some(PdfEnriched(llm_result[1])))
    ELSE IF BlocksReadRaises(d) THEN Raised("RuntimeError")
         ELSE Returned(Some(PdfHeuristic(d)))

\* documents left open when extract_pdf_metadata ends after the enrichment
\* result is known: doc.close() of line 123 is skipped by the exception
OpenAfterMetadata(d, llm_result) ==
    IF ~Truthy(llm_result) /\ BlocksReadRaises(d) THEN 1 ELSE 0

NoMerge == [called |-> FALSE, user |-> <<>>, suggested |-> <<>>, result |-> <<>>]
Merged(user, suggested) ==
    [called |-> TRUE, user |-> user, suggested |-> suggested,
     result |-> merge_tags(user, suggested)]

Built(exc, meta, art, merge) == [exc |-> exc, meta |-> meta, article |-> art, merge |-> merge]

\* Article(...): pydantic rejects None for the str fields title and summary
NewArticle(title, summary, tags) ==
    IF title.null \/ summary.null THEN Raised("ValidationError")
    ELSE Returned(Some([title |-> title.s, summary |-> summary.s, tags |-> tags]))

\* merge_tags(article_data.tags, suggested_tags), then Article(...)
MergeAndBuild(meta, title, summary, suggested_tags, user_tags) ==
    IF suggested_tags.null
    THEN Built("TypeError", meta, None, NoMerge)
    ELSE LET m == Merged(user_tags, suggested_tags.l)
             a == NewArticle(title, summary, m.result)
         IN  Built(a.exc, meta, a.val, m)

\* scraper.py 168-183
ScrapePdfBuild(d, user_tags, llm_result) ==
    LET pm == PdfMetadata(d, llm_result)
    IN  IF pm.exc # "none" THEN Built(pm.exc, None, None, NoMerge)
        ELSE MergeAndBuild(pm.val, pm.val[1].title, pm.val[1].summary,
                           pm.val[1].suggested_tags, user_tags)

\* scraper.py 205-225
HtmlEnrichedBuild(v, user_tags) ==
    MergeAndBuild(None, Get(v, "title", StrVal(<<>>)), Get(v, "summary", StrVal(<<>>)),
                  Get(v, "suggested_tags", TagsVal(<<>>)), user_tags)

\* scraper.py 227-256
HtmlHeuristicBuild(d, user_tags) ==
    LET a == NewArticle(StrVal(HtmlTitle(d)), StrVal(HtmlSummary(d)), user_tags)
    IN  Built(a.exc, None, a.val, NoMerge)

\* scraper.py 205-256
ScrapeHtmlBuild(d, user_tags, llm_result) ==
    IF Truthy(llm_result)
    THEN IF llm_result[1].kind # "object"
         THEN Built("AttributeError", None, None, NoMerge)
         ELSE HtmlEnrichedBuild(llm_result[1], user_tags)
    ELSE HtmlHeuristicBuild(d, user_tags)

(***************************************************************************)
(* The store (storage.py).  The articles file is the list of the records   *)
(* it holds; an identifier (uuid4) is a number never handed out before,    *)
(* and date_added is the time of creation.                                 *)
(***************************************************************************)
MaxArticles == 2

\* article.py 31-37: a field that was not set is None, a field set to v is <<v>>
ArticleUpdate(title, summary, tags, priority, status) ==
    [title |-> title, summary |-> summary, tags |-> tags, priority |-> priority,
     status |-> status]

NoUpdate == ArticleUpdate(None, None, None, None, None)

\* routes.py 84 and 93
ReadUpdate == ArticleUpdate(None, None, None, None, Some("read"))
UnreadUpdate == ArticleUpdate(None, None, None, None, Some("unread"))

Updates ==
    { NoUpdate,
      ReadUpdate,
      ArticleUpdate(Some(T_head), Some(S_long), Some(<<T_ai>>), Some("high"), None) }

\* article.py 40-51: the record add() stores for a new article
StoredArticle(id, url, title, summary, tags, priority) ==
    [id |-> id, url |-> url, title |-> title, summary |-> summary,
     source |-> extract_domain(url), date_added |-> id, tags |-> tags,
     priority |-> priority, status |-> "unread"]

\* the articles the extraction hands to add(): the n-th one created
NewArticles(id) ==
    {StoredArticle(id, IF id % 2 = 1 THEN U_plain ELSE U_www, T_meta, S_short, <<>>, priority) :
        priority \in {"medium"}}

\* what a method of StorageService did: the list it computed, whether it
\* called _save_articles, whether it found the article, what it returned
Outcome(articles, saved, found, returned) ==
    [articles |-> articles, saved |-> saved, found |-> found, returned |-> returned]

\* storage.py 67-72
add(articles, article) == Outcome(Append(articles, article), TRUE, TRUE, Some(article))

\* storage.py 77-78: the first record with this id (0: there is none)
IndexOf(articles, article_id) ==
    IF \E i \in 1..Len(articles) : articles[i].id = article_id
    THEN CHOOSE i \in 1..Len(articles) :
            /\ articles[i].id = article_id
            /\ \A j \in 1..(i - 1) : articles[j].id # article_id
    ELSE 0

\* storage.py 79-81: model_dump(exclude_unset=True), then data.update(...)
Updated(data, upd) ==
    [data EXCEPT !.title = IF upd.title # None THEN upd.title[1] ELSE @,
                 !.summary = IF upd.summary # None THEN upd.summary[1] ELSE @,
                 !.tags = IF upd.tags # None THEN upd.tags[1] ELSE @,
                 !.priority = IF upd.priority # None THEN upd.priority[1] ELSE @,
                 !.status = IF upd.status # None THEN upd.status[1] ELSE @]

\* storage.py 74-86
update_stamping(articles, article_id, upd) ==
    LET i == IndexOf(articles, article_id)
    IN  IF i = 0 THEN Outcome(articles, FALSE, FALSE, None)
        ELSE LET data == [Updated(articles[i], upd) EXCEPT !.date_added = 0]
             IN  Outcome([articles EXCEPT ![i] = data], TRUE, TRUE, Some(data))

update(articles, article_id, upd) ==
    LET i == IndexOf(articles, article_id)
    IN  IF i = 0 THEN Outcome(articles, FALSE, FALSE, None)
        ELSE LET data == Updated(articles[i], upd)
             IN  Outcome([articles EXCEPT ![i] = data], TRUE, TRUE, Some(data))

\* storage.py 88-97
delete_from_there(articles, article_id) ==
    LET i == IndexOf(articles, article_id)
    IN  IF i = 0 THEN Outcome(articles, FALSE, FALSE, None)
        ELSE Outcome(SubSeq(articles, 1, i - 1), TRUE, TRUE, None)

delete(articles, article_id) ==
    LET kept == SelectSeq(articles, LAMBDA a : a.id # article_id)
    IN  IF Len(kept) < Len(articles)
        THEN Outcome(kept, TRUE, TRUE, None)
        ELSE Outcome(articles, FALSE, FALSE, None)

\* routes.py 66-67, 76-77, 85-86, 94-95
StatusCode(found) == IF found THEN 200 ELSE 404

(***************************************************************************)
(* State.                                                                  *)
(***************************************************************************)
VARIABLES
    OLLAMA_AVAILABLE, \* llm.py 7-11: the client library could be imported
    pc,               \* position of the call in progress
    entry,            \* the function that was called
    doc,              \* the document being extracted (None outside an extraction)
    user_tags,        \* article_data.tags
    use_llm,          \* the use_llm argument of extract_pdf_metadata
    enrich_enabled,   \* whether the caller wants enrichment: the code takes this
                      \* only as the use_llm argument of extract_pdf_metadata
    llm_state,        \* extract_with_llm: "none", "called" or "returned"
    llm_text,         \* the text argument of extract_with_llm
    llm_probe,        \* its own liveness probe: "none", "skipped", "up" or "down"
    gen,              \* outcome of ollama.generate (None: not called)
    llm_exc,          \* exception that left extract_with_llm ("none": it returned)
    llm_result,       \* value returned by extract_with_llm (None when not called)
    probes,           \* calls of ollama.list() in this call
    generates,        \* calls of ollama.generate() in this call
    pdf_meta,         \* record returned by extract_pdf_metadata
    article,          \* Article returned by scrape_pdf / scrape_html
    merge_call,       \* the call of merge_tags made, with its result
    fitz_open,        \* pymupdf documents opened by this call and not closed
    is_pdf,           \* the call of is_pdf_url made, with its result
    pdf_date,         \* the call of extract_pdf_date made, with its result
    file,             \* the articles file: the records it holds, in order
    next_id,          \* identifiers handed out so far
    last,             \* the last call of the store that returned, with the file before it
    delete_calls,     \* identifiers delete() has been called with
    procs,            \* the processes sharing the file: the call each is in
    added,            \* identifiers whose add() has returned
    deleted,          \* identifiers whose delete() has returned True
    request,          \* the HTTP request or command being served, with its answer
    err               \* exception that left the function called ("none": it returned)

vars ==
    << OLLAMA_AVAILABLE, pc, entry, doc, user_tags, use_llm, enrich_enabled, llm_state, llm_text,
       llm_probe, gen, llm_exc, llm_result, probes, generates, pdf_meta, article,
       merge_call, fitz_open, is_pdf, pdf_date, err,
       file, next_id, last, delete_calls, procs, added, deleted, request >>

\* what the extraction functions never touch
callVars == <<is_pdf, pdf_date, request>>

\* the store and the calls made of it
storeVars == <<file, next_id, last, delete_calls, procs, added, deleted>>

\* the variables of an extraction
scrapeVars ==
    << OLLAMA_AVAILABLE, pc, entry, doc, user_tags, use_llm, enrich_enabled, llm_state,
       llm_text, llm_probe, gen, llm_exc, llm_result, probes, generates, pdf_meta, article,
       merge_call, fitz_open, is_pdf, pdf_date, err >>

\* the server and one command-line process (routes.py, cli/commands.py)
Procs == {1, 2}

NoCall ==
    [kind |-> "none", id |-> 0, upd |-> NoUpdate, before |-> <<>>, saved |-> FALSE,
     found |-> FALSE, returned |-> None, status_code |-> 0, repeated |-> FALSE,
     prev_kind |-> "other", prev_id |-> 0, prev_before |-> <<>>]

\* no request is being served (routes.py, cli/commands.py)
NoRequest ==
    [command |-> "none", pc |-> "idle", before |-> <<>>, code |-> 0, prefix |-> <<>>,
     matches |-> {}, refused |-> "none"]

NotCalling == [pc |-> "idle", kind |-> "none", id |-> 0, upd |-> NoUpdate, article |-> None,
               loaded |-> <<>>]

\* storage.py 25-30: no file yet, _load_articles gives []
EmptyStore ==
    /\ file = <<>>
    /\ next_id = 0
    /\ last = NoCall
    /\ delete_calls = {}
    /\ procs = [p \in Procs |-> NotCalling]
    /\ added = {}
    /\ deleted = {}

Idle ==
    /\ pc = "idle"
    /\ entry = "none"
    /\ doc = None
    /\ user_tags = <<>>
    /\ use_llm = TRUE
    /\ enrich_enabled = TRUE
    /\ llm_state = "none"
    /\ llm_text = <<>>
    /\ llm_probe = "none"
    /\ gen = None
    /\ llm_exc = "none"
    /\ llm_result = None
    /\ probes = 0
    /\ generates = 0
    /\ pdf_meta = None
    /\ article = None
    /\ merge_call = NoMerge
    /\ fitz_open = 0
    /\ is_pdf = None
    /\ pdf_date = None
    /\ request = NoRequest
    /\ err = "none"

Init == OLLAMA_AVAILABLE \in BOOLEAN /\ Idle /\ EmptyStore

(***************************************************************************)
(* Steps.  A call is cut only where it waits for the model service.        *)
(***************************************************************************)
\* llm.py 34-42: up is whether ollama.list() answers
is_ollama_running(available, up) ==
    IF ~available THEN [result |-> FALSE, calls |-> 0]
    ELSE [result |-> up, calls |-> 1]

\* scraper.py 93: `use_llm and ...` decides whether the probe is called at all
PdfAttemptsLlmAlways(use) == TRUE
PdfAttemptsLlm(use) == use

\* scraper.py 203: `extracted and ...`
HtmlAttemptsLlm(d) == d.extracted # <<>>

GenerateOutcomes ==
    {[raised |-> TRUE, response |-> Reply(None, NoMatch, NoMatch)]}
        \cup {[raised |-> FALSE, response |-> r] : r \in Responses}

\* the rest of the function called, once the enrichment result is known
Finish(e, d, tags, res) ==
    LET b == CASE e = "scrape_pdf" -> ScrapePdfBuild(d[1], tags, res)
               [] e = "scrape_html" -> ScrapeHtmlBuild(d[1], tags, res)
               [] e = "extract_pdf_metadata" ->
                      LET pm == PdfMetadata(d[1], res)
                      IN  Built(pm.exc, pm.val, None, NoMerge)
               [] OTHER -> Built("none", None, None, NoMerge)
    IN  /\ pc' = IF b.exc = "none" THEN "done" ELSE "failed"
        /\ err' = b.exc
        /\ pdf_meta' = b.meta
        /\ article' = b.article
        /\ merge_call' = b.merge
        /\ fitz_open' = IF d # None /\ d[1].kind = "pdf"
                        THEN OpenAfterMetadata(d[1], res) ELSE 0

\* extract_with_llm returns r.val or raises r.exc to the function that called it
LlmReturns(r) ==
    /\ llm_state' = "returned"
    /\ llm_exc' = r.exc
    /\ llm_result' = r.val
    /\ IF r.exc # "none"
       THEN /\ pc' = "failed"
            /\ err' = r.exc
            /\ UNCHANGED <<pdf_meta, article, merge_call, fitz_open>>
       ELSE Finish(entry, doc, user_tags, r.val)

\* extract_pdf_metadata up to the probe (scraper.py 77-93)
EnterPdf(e, d, tags, use, enabled) ==
    /\ entry' = e
    /\ enrich_enabled' = enabled
    /\ doc' = Some(d)
    /\ user_tags' = tags
    /\ use_llm' = use
    /\ IF d.corrupt
       THEN \* fitz.open raises: there is no document to close
            /\ pc' = "failed"
            /\ err' = "FileDataError"
            /\ UNCHANGED <<pdf_meta, article, merge_call, fitz_open>>
       ELSE IF PagesReadRaises(d)
            THEN \* line 88 raises past doc.close() of line 90
                 /\ pc' = "failed"
                 /\ err' = "RuntimeError"
                 /\ fitz_open' = fitz_open + 1
                 /\ UNCHANGED <<pdf_meta, article, merge_call>>
            ELSE IF PdfAttemptsLlm(use)
                 THEN /\ pc' = "probe"
                      /\ UNCHANGED <<err, pdf_meta, article, merge_call, fitz_open>>
                 ELSE Finish(e, Some(d), tags, None)
    /\ UNCHANGED <<OLLAMA_AVAILABLE, callVars, storeVars, llm_state, llm_text, llm_probe, gen, llm_exc,
                   llm_result, probes, generates>>

\* scrape_pdf (scraper.py 168-170): always use_llm=True
ScrapePdf ==
    /\ pc = "idle"
    /\ \E d \in PdfDocs, tags \in UserTagLists, enabled \in BOOLEAN :
          EnterPdf("scrape_pdf", d, tags, TRUE, enabled)

\* extract_pdf_metadata called on its own (scraper.py 77)
ExtractPdfMetadata ==
    /\ pc = "idle"
    /\ \E d \in PdfDocs, use \in BOOLEAN :
          EnterPdf("extract_pdf_metadata", d, <<>>, use, use)

\* extract_pdf_text (scraper.py 66-74): what it returns is FullText(doc)
ExtractPdfText ==
    \E d \in PdfDocs :
       /\ pc = "idle"
       /\ entry' = "extract_pdf_text"
       /\ doc' = Some(d)
       /\ IF d.corrupt
          THEN pc' = "failed" /\ err' = "FileDataError" /\ UNCHANGED fitz_open
          ELSE IF PagesReadRaises(d)
               THEN pc' = "failed" /\ err' = "RuntimeError" /\ fitz_open' = fitz_open + 1
               ELSE pc' = "done" /\ UNCHANGED <<err, fitz_open>>
       /\ UNCHANGED <<OLLAMA_AVAILABLE, callVars, storeVars, user_tags, use_llm, enrich_enabled, llm_state,
                      llm_text, llm_probe, gen, llm_exc, llm_result, probes, generates,
                      pdf_meta, article, merge_call>>

\* scrape_html up to the probe (scraper.py 186-203)
EnterHtml(d, tags, enabled) ==
    /\ entry' = "scrape_html"
    /\ enrich_enabled' = enabled
    /\ doc' = Some(d)
    /\ user_tags' = tags
    /\ IF HtmlAttemptsLlm(d)
       THEN /\ pc' = "probe"
            /\ UNCHANGED <<err, pdf_meta, article, merge_call, fitz_open>>
       ELSE Finish("scrape_html", Some(d), tags, None)
    /\ UNCHANGED <<OLLAMA_AVAILABLE, callVars, storeVars, use_llm, llm_state, llm_text, llm_probe, gen,
                   llm_exc, llm_result, probes, generates>>

ScrapeHtml ==
    /\ pc = "idle"
    /\ \E d \in HtmlDocs, tags \in UserTagLists, enabled \in BOOLEAN :
          EnterHtml(d, tags, enabled)

\* is_ollama_running() in scraper.py 93 and 203
IsOllamaRunning ==
    /\ pc = "probe"
    /\ \E up \in BOOLEAN :
          LET r == is_ollama_running(OLLAMA_AVAILABLE, up)
          IN  /\ probes' = probes + r.calls
              /\ IF r.result
                 THEN /\ pc' = "llm"
                      /\ llm_state' = "called"
                      /\ llm_text' = IF doc[1].kind = "pdf" THEN FullText(doc[1])
                                     ELSE doc[1].extracted
                      /\ UNCHANGED <<err, pdf_meta, article, merge_call, fitz_open>>
                 ELSE /\ Finish(entry, doc, user_tags, None)
                      /\ UNCHANGED <<llm_state, llm_text>>
    /\ UNCHANGED <<OLLAMA_AVAILABLE, callVars, storeVars, entry, doc, user_tags, use_llm, enrich_enabled,
                   llm_probe, gen, llm_exc, llm_result, generates>>

\* extract_with_llm called on its own (llm.py 45)
ExtractWithLlmCall ==
    \E text \in Texts :
       /\ pc = "idle"
       /\ entry' = "extract_with_llm"
       /\ llm_state' = "called"
       /\ llm_text' = text
       /\ pc' = "llm"
       /\ UNCHANGED <<OLLAMA_AVAILABLE, callVars, storeVars, doc, user_tags, use_llm, enrich_enabled,
                      llm_probe, gen, llm_exc, llm_result, probes, generates, pdf_meta,
                      article, merge_call, fitz_open, err>>

\* extract_with_llm up to the generate call (llm.py 54-66)
ExtractWithLlm ==
    /\ pc = "llm"
    /\ \E up \in BOOLEAN :
          LET r == is_ollama_running(OLLAMA_AVAILABLE, up)
          IN  /\ probes' = probes + r.calls
              /\ llm_probe' = IF ~OLLAMA_AVAILABLE THEN "skipped"
                              ELSE IF r.result THEN "up" ELSE "down"
              /\ IF r.result /\ ~TooShort(TruncateText(llm_text))
                 THEN /\ pc' = "generate"
                      /\ UNCHANGED <<llm_state, llm_exc, llm_result, err, pdf_meta,
                                     article, merge_call, fitz_open>>
                 ELSE LlmReturns(Returned(None))
    /\ UNCHANGED <<OLLAMA_AVAILABLE, callVars, storeVars, entry, doc, user_tags, use_llm, enrich_enabled,
                   llm_text, gen, generates>>

\* ollama.generate and the rest of extract_with_llm (llm.py 68-92)
OllamaGenerate ==
    /\ pc = "generate"
    /\ \E outcome \in GenerateOutcomes :
          /\ gen' = Some(outcome)
          /\ LlmReturns(LlmExcept(LlmTry(outcome)))
    /\ generates' = generates + 1
    /\ UNCHANGED <<OLLAMA_AVAILABLE, callVars, storeVars, entry, doc, user_tags, use_llm, enrich_enabled,
                   llm_text, llm_probe, probes>>

\* merge_tags called on its own (cli/commands.py 140)
MergeTagsCall ==
    \E user \in UserTagLists, suggested \in SuggestedTagLists :
       /\ pc = "idle"
       /\ entry' = "merge_tags"
       /\ user_tags' = user
       /\ merge_call' = Merged(user, suggested)
       /\ pc' = "done"
       /\ UNCHANGED <<OLLAMA_AVAILABLE, callVars, storeVars, doc, use_llm, enrich_enabled, llm_state,
                      llm_text, llm_probe, gen, llm_exc, llm_result, probes, generates,
                      pdf_meta, article, fitz_open, err>>

\* is_pdf_url called with the URL's path and the response's Content-Type
\* (scraper.py 277-280), or with no content type at all
IsPdfUrl ==
    \E path \in UrlPaths, content_type \in ContentTypes :
       /\ pc = "idle"
       /\ entry' = "is_pdf_url"
       /\ is_pdf' = Some([path |-> path, content_type |-> content_type,
                          result |-> is_pdf_url(path, content_type)])
       /\ pc' = "done"
       /\ UNCHANGED <<OLLAMA_AVAILABLE, storeVars, request, pdf_date, doc, user_tags, use_llm, enrich_enabled,
                      llm_state, llm_text, llm_probe, gen, llm_exc, llm_result, probes,
                      generates, pdf_meta, article, merge_call, fitz_open, err>>

\* extract_pdf_date called with the metadata of a document (scraper.py 100, 140)
ExtractPdfDate ==
    \E creationDate \in CreationDates :
       /\ pc = "idle"
       /\ entry' = "extract_pdf_date"
       /\ pdf_date' = Some([creationDate |-> creationDate,
                            result |-> extract_pdf_date(creationDate)])
       /\ pc' = "done"
       /\ UNCHANGED <<OLLAMA_AVAILABLE, storeVars, request, is_pdf, doc, user_tags, use_llm, enrich_enabled,
                      llm_state, llm_text, llm_probe, gen, llm_exc, llm_result, probes,
                      generates, pdf_meta, article, merge_call, fitz_open, err>>

\* nothing of a call is kept for the next one
Forget ==
    /\ pc' = "idle"
    /\ entry' = "none"
    /\ doc' = None
    /\ user_tags' = <<>>
    /\ use_llm' = TRUE
    /\ enrich_enabled' = TRUE
    /\ llm_state' = "none"
    /\ llm_text' = <<>>
    /\ llm_probe' = "none"
    /\ gen' = None
    /\ llm_exc' = "none"
    /\ llm_result' = None
    /\ probes' = 0
    /\ generates' = 0
    /\ pdf_meta' = None
    /\ article' = None
    /\ merge_call' = NoMerge
    /\ fitz_open' = 0
    /\ is_pdf' = None
    /\ pdf_date' = None
    /\ err' = "none"

\* the caller takes the result or the exception; the next call starts afresh
Return ==
    /\ pc \in {"done", "failed"}
    /\ Forget
    /\ UNCHANGED <<OLLAMA_AVAILABLE, storeVars, request>>

Next ==
    \/ ScrapePdf
    \/ ExtractPdfMetadata
    \/ ExtractPdfText
    \/ ScrapeHtml
    \/ IsOllamaRunning
    \/ ExtractWithLlmCall
    \/ ExtractWithLlm
    \/ OllamaGenerate
    \/ MergeTagsCall
    \/ IsPdfUrl
    \/ ExtractPdfDate
    \/ Return

Spec == Init /\ [][Next]_vars

(***************************************************************************)
(* The store used by one caller at a time: each method is one step, from   *)
(* _load_articles to its return.                                           *)
(***************************************************************************)
\* identifiers a caller can name: those handed out, and one never handed out
KnownIds == 0..next_id

\* the method returned r; the file is written only by _save_articles
Returns(kind, id, upd, r) ==
    /\ file' = IF r.saved THEN r.articles ELSE file
    /\ last' = [kind |-> kind, id |-> id, upd |-> upd, before |-> file, saved |-> r.saved,
                found |-> r.found, returned |-> r.returned,
                status_code |-> StatusCode(r.found),
                repeated |-> kind = "delete" /\ id \in delete_calls,
                \* the call before it, kept when it was mark_as_read
                prev_kind |-> IF last.kind = "read" THEN "read" ELSE "other",
                prev_id |-> IF last.kind = "read" THEN last.id ELSE 0,
                prev_before |-> IF last.kind = "read" THEN last.before ELSE <<>>]
    /\ delete_calls' = IF kind = "delete" THEN delete_calls \cup {id} ELSE delete_calls
    /\ UNCHANGED <<scrapeVars, procs, added, deleted>>

\* storage.add(article) (storage.py 67-72; routes.py 19)
StorageAdd ==
    /\ next_id < MaxArticles
    /\ \E a \in NewArticles(next_id + 1) :
          /\ Returns("add", a.id, NoUpdate, add(file, a))
          /\ next_id' = a.id
    /\ UNCHANGED request

\* storage.update(article_id, update) (storage.py 74-86; routes.py 60-70)
StorageUpdate ==
    /\ \E id \in KnownIds, upd \in Updates :
          Returns("update", id, upd, update(file, id, upd))
    /\ UNCHANGED <<next_id, request>>

\* routes.py 81-87
MarkAsRead ==
    /\ \E id \in KnownIds : Returns("read", id, ReadUpdate, update(file, id, ReadUpdate))
    /\ UNCHANGED <<next_id, request>>

\* routes.py 90-96
MarkAsUnread ==
    /\ \E id \in KnownIds : Returns("unread", id, UnreadUpdate, update(file, id, UnreadUpdate))
    /\ UNCHANGED <<next_id, request>>

\* storage.delete(article_id) (storage.py 88-97; routes.py 73-78)
StorageDelete ==
    /\ \E id \in KnownIds : Returns("delete", id, NoUpdate, delete(file, id))
    /\ UNCHANGED <<next_id, request>>

StorageNext ==
    \/ StorageAdd
    \/ StorageUpdate
    \/ MarkAsRead
    \/ MarkAsUnread
    \/ StorageDelete

StorageInit == OLLAMA_AVAILABLE = TRUE /\ Idle /\ EmptyStore

StorageSpec == StorageInit /\ [][StorageNext]_vars

(***************************************************************************)
(* The store shared by the server and a command-line process: nothing      *)
(* locks the file, so a method of one process is two steps, the load and   *)
(* the save, and the steps of the other may fall in between.               *)
(***************************************************************************)
\* the calls made while the file is shared
Calls(n) ==
    (IF n < MaxArticles THEN {[kind |-> "add", id |-> n + 1, upd |-> NoUpdate]} ELSE {})
    \cup {[kind |-> "update", id |-> id, upd |-> upd] :
             id \in 1..n, upd \in {ReadUpdate, UnreadUpdate}}
    \cup {[kind |-> "delete", id |-> id, upd |-> NoUpdate] : id \in 1..n}

\* the method from its first line to the return of _load_articles
LoadArticles(p) ==
    /\ procs[p].pc = "idle"
    /\ \E c \in Calls(next_id) :
          /\ procs' = [procs EXCEPT ![p] =
                 [pc |-> "loaded", kind |-> c.kind, id |-> c.id, upd |-> c.upd,
                  article |-> IF c.kind = "add"
                              THEN Some(StoredArticle(c.id, U_plain, T_meta, S_short,
                                                      <<>>, "medium"))
                              ELSE None,
                  loaded |-> file]]
          /\ next_id' = IF c.kind = "add" THEN c.id ELSE next_id
          /\ delete_calls' = IF c.kind = "delete" THEN delete_calls \cup {c.id}
                             ELSE delete_calls
    /\ UNCHANGED <<scrapeVars, request, file, last, added, deleted>>

\* what the method makes of the list it loaded
Apply(call) ==
    CASE call.kind = "add" -> add(call.loaded, call.article[1])
      [] call.kind = "update" -> update(call.loaded, call.id, call.upd)
      [] OTHER -> delete(call.loaded, call.id)

\* the rest of the method: the change, _save_articles, the return
SaveArticles(p) ==
    /\ procs[p].pc = "loaded"
    /\ LET r == Apply(procs[p])
       IN  /\ file' = IF r.saved THEN r.articles ELSE file
           /\ added' = IF procs[p].kind = "add" THEN added \cup {procs[p].id} ELSE added
           /\ deleted' = IF procs[p].kind = "delete" /\ r.found
                         THEN deleted \cup {procs[p].id} ELSE deleted
    /\ procs' = [procs EXCEPT ![p] = NotCalling]
    /\ UNCHANGED <<scrapeVars, request, next_id, last, delete_calls>>

SharedNext == \E p \in Procs : LoadArticles(p) \/ SaveArticles(p)

SharedSpec == StorageInit /\ [][SharedNext]_vars

(***************************************************************************)
(* Adding an article: POST /api/articles, `reading add` and `reading       *)
(* add-local`.  The extraction is the one above; the store is written by   *)
(* storage.add once the extraction has returned an Article.                *)
(***************************************************************************)
\* scraper.py 274-275: client.get answers, or it raises, or raise_for_status
\* raises on a 4xx / 5xx answer
FetchOutcomes == {"response", "ConnectError", "HTTPStatusError"}

\* commands.py 122-135: the file named is a PDF that can be read, does not
\* exist, has another suffix, or cannot be read
LocalFiles == {"pdf", "missing", "not_pdf", "OSError"}

\* routes.py 25: HTTPException(400); commands.py 110, 126, 130, 163: typer.Exit(1)
FailureCode(command) == IF command = "create_article" THEN 400 ELSE 1
SuccessCode(command) == IF command = "create_article" THEN 200 ELSE 0

\* the documents and tags of the requests made
FetchedPdfs ==
    { PdfDoc(TRUE, <<>>, <<>>, <<>>, U_plain),
      PdfDoc(FALSE, T_meta, <<Tx(50, Blank(1), 69)>>, <<T_head>>, U_plain),
      Unreadable(PdfDoc(FALSE, <<>>, <<A(60)>>, <<T_head>>, U_plain), "blocks") }

FetchedPages ==
    { HtmlDoc(Tx(50, Blank(1), 69), T_meta, <<>>, U_plain),
      HtmlDoc(<<>>, <<>>, <<>>, U_www) }

RequestTags == {<<T_AI>>}

\* str(path) of a local file: no network location
LocalPath == UrlAt(<<>>, <<>>, Lit(<<"m", "y", "_", "d", "o", "c">>))
LocalPdfs == {[d EXCEPT !.url = LocalPath] : d \in FetchedPdfs}

\* the request or command up to the answer of the fetch, or to the reading of
\* the local file
Asks(command, outcomes, proceeds) ==
    /\ pc = "idle"
    /\ next_id < MaxArticles
    /\ \E o \in outcomes :
          request' = IF o = proceeds
                     THEN [NoRequest EXCEPT !.command = command, !.pc = "fetched",
                                            !.before = file]
                     ELSE [NoRequest EXCEPT !.command = command, !.pc = "answered",
                                            !.before = file, !.refused = o,
                                            !.code = FailureCode(command)]
    /\ UNCHANGED <<scrapeVars, storeVars>>

\* routes.py 13-21
CreateArticle ==
    /\ request.pc = "idle"
    /\ Asks("create_article", FetchOutcomes, "response")

\* commands.py 86-100: ArticleCreate(...) and Priority(priority) raise as well
CliAdd ==
    /\ request.pc = "idle"
    /\ Asks("add", FetchOutcomes \cup {"ValidationError", "ValueError"}, "response")

\* commands.py 113-135
AddLocal ==
    /\ request.pc = "idle"
    /\ Asks("add_local", LocalFiles, "pdf")

\* scraper.py 280-283: the response goes to scrape_pdf or to scrape_html
ScrapeArticle ==
    /\ pc = "idle"
    /\ request.pc = "fetched"
    /\ request.command \in {"create_article", "add"}
    /\ \/ \E d \in FetchedPdfs, tags \in RequestTags : EnterPdf("scrape_pdf", d, tags, TRUE, TRUE)
       \/ \E d \in FetchedPages, tags \in RequestTags : EnterHtml(d, tags, TRUE)

\* commands.py 136
AddLocalExtract ==
    /\ pc = "idle"
    /\ request.pc = "fetched"
    /\ request.command = "add_local"
    /\ \E d \in LocalPdfs, tags \in RequestTags :
          EnterPdf("extract_pdf_metadata", d, tags, TRUE, TRUE)

\* what the try block holds once the extraction has ended: the exception, or
\* the Article (commands.py 139-150: add-local merges the tags and builds it)
Scraped ==
    IF pc = "failed" THEN Built(err, None, None, NoMerge)
    ELSE IF request.command = "add_local"
         THEN MergeAndBuild(pdf_meta, pdf_meta[1].title, pdf_meta[1].summary,
                            pdf_meta[1].suggested_tags, user_tags)
         ELSE Built("none", None, article, NoMerge)

\* the record of the Article built (commands.py 142-150 for a local file)
ArticleRecord(command, id, url, a) ==
    LET r == StoredArticle(id, url, a.title, a.summary, a.tags, "medium")
    IN  IF command = "add_local" THEN [r EXCEPT !.source = Concat(url.stem, DotPdf)]
        ELSE r

\* routes.py 20-25, commands.py 94-110 and 134-163: storage.add is reached
\* only when nothing raised before it
create_article_truncating(articles, exc, a) ==
    IF exc = "none" THEN add(articles, a[1])
    ELSE Outcome(<<>>, TRUE, FALSE, None)

create_article(articles, exc, a) ==
    IF exc = "none" THEN add(articles, a[1])
    ELSE Outcome(articles, FALSE, FALSE, None)

\* the rest of the handler, once the extraction has ended
StoreOrRefuse ==
    /\ request.pc = "fetched"
    /\ pc \in {"done", "failed"}
    /\ LET b == Scraped
           id == next_id + 1
           a == IF b.exc = "none"
                THEN Some(ArticleRecord(request.command, id, doc[1].url, b.article[1]))
                ELSE None
           r == create_article(file, b.exc, a)
       IN  /\ file' = IF r.saved THEN r.articles ELSE file
           /\ next_id' = IF b.exc = "none" THEN id ELSE next_id
           /\ added' = IF b.exc = "none" THEN added \cup {id} ELSE added
           /\ request' = [request EXCEPT !.pc = "answered", !.refused = b.exc,
                             !.code = IF b.exc = "none" THEN SuccessCode(request.command)
                                      ELSE FailureCode(request.command)]
    /\ UNCHANGED <<scrapeVars, last, delete_calls, procs, deleted>>

\* the answer is sent, or the command exits
Respond ==
    /\ request.pc = "answered"
    /\ request' = NoRequest
    /\ Forget
    /\ UNCHANGED <<OLLAMA_AVAILABLE, storeVars>>

AddNext ==
    \/ CreateArticle
    \/ CliAdd
    \/ AddLocal
    \/ ScrapeArticle
    \/ AddLocalExtract
    \/ IsOllamaRunning
    \/ ExtractWithLlm
    \/ OllamaGenerate
    \/ StoreOrRefuse
    \/ Respond

AddSpec == Init /\ [][AddNext]_vars

(***************************************************************************)
(* The commands that name an article by the first characters of its        *)
(* identifier: read, unread, delete, tag and priority (cli/commands.py).   *)
(* The store is used by one command at a time; Respond is its exit.        *)
(***************************************************************************)
\* article.py 42: str(uuid4()), shortened to its first two characters; the
\* identifiers handed out share their first character two by two
IdFirst == <<"3", "9", "c", "e">>
IdSecond == <<"f", "0">>
IdText(id) ==
    Lit(<<IdFirst[(((id - 1) \div 2) % Len(IdFirst)) + 1], IdSecond[((id - 1) % 2) + 1]>>)

\* what the user types as article_id: nothing, the first characters of an
\* identifier, a whole identifier, or more than a whole identifier
IdPrefixes ==
    {Slice(IdText(id), k) : id \in 1..2, k \in 0..2}
        \cup {Slice(IdText(3), 1), Concat(IdText(1), Lit(<<"f">>))}

\* commands.py 172-173: storage.get_all(), then a.id.startswith(article_id)
Matches(articles, article_id) ==
    {articles[i].id : i \in {j \in 1..Len(articles) :
                                StartsWith(IdText(articles[j].id), article_id)}}

\* commands.py 306 and 331: the tags and the level typed ("urgent": Priority(level)
\* raises ValueError)
TypedTags == {<<T_ai>>}
TypedLevels == {"high", "urgent"}
Priorities == {"low", "medium", "high"}

\* commands.py 175-185: typer.Exit(1) unless exactly one article matches, then
\* the call of the store on matches[0].id.  proceeds is FALSE when the deletion
\* is not confirmed (232-234) or the level is no priority (331-336).
OnFirstMatch(articles, article_id, kind, upd, proceeds) ==
    LET matches == Matches(articles, article_id)
    IN  IF matches = {} \/ ~proceeds
        THEN Outcome(articles, FALSE, FALSE, None)
        ELSE LET id == CHOOSE m \in matches : \A n \in matches : m >= n
             IN  IF kind = "delete" THEN delete(articles, id) ELSE update(articles, id, upd)

OnMatch(articles, article_id, kind, upd, proceeds) ==
    LET matches == Matches(articles, article_id)
    IN  IF Cardinality(matches) # 1 \/ ~proceeds
        THEN Outcome(articles, FALSE, FALSE, None)
        ELSE LET id == CHOOSE m \in matches : TRUE
             IN  IF kind = "delete" THEN delete(articles, id) ELSE update(articles, id, upd)

\* the command from its first line to its exit
Command(command, article_id, kind, upd, proceeds) ==
    LET matches == Matches(file, article_id)
        r == OnMatch(file, article_id, kind, upd, proceeds)
    IN  /\ file' = IF r.saved THEN r.articles ELSE file
        /\ request' = [command |-> command, pc |-> "answered", before |-> file,
                       code |-> IF Cardinality(matches) = 1 /\ proceeds THEN 0 ELSE 1,
                       prefix |-> article_id, matches |-> matches,
                       refused |-> IF proceeds THEN "none" ELSE "stopped"]
        /\ UNCHANGED <<scrapeVars, next_id, last, delete_calls, procs, added, deleted>>

\* commands.py 166-186
CliRead ==
    /\ request.pc = "idle"
    /\ \E article_id \in IdPrefixes : Command("read", article_id, "update", ReadUpdate, TRUE)

\* commands.py 189-208
CliUnread ==
    /\ request.pc = "idle"
    /\ \E article_id \in IdPrefixes :
          Command("unread", article_id, "update", UnreadUpdate, TRUE)

\* commands.py 211-237: force, or the answer to typer.confirm
CliDelete ==
    /\ request.pc = "idle"
    /\ \E article_id \in IdPrefixes, force \in BOOLEAN, confirm \in BOOLEAN :
          Command("delete", article_id, "delete", NoUpdate, force \/ confirm)

\* commands.py 287-308
CliTag ==
    /\ request.pc = "idle"
    /\ \E article_id \in IdPrefixes, new_tags \in TypedTags :
          Command("tag", article_id, "update",
                  ArticleUpdate(None, None, Some(new_tags), None, None), TRUE)

\* commands.py 311-336
CliPriority ==
    /\ request.pc = "idle"
    /\ \E article_id \in IdPrefixes, level \in TypedLevels :
          Command("priority", article_id, "update",
                  ArticleUpdate(None, None, None, Some(level), None), level \in Priorities)

\* an article added earlier (commands.py 101)
ArticleAdded ==
    /\ request.pc = "idle"
    /\ next_id < MaxArticles
    /\ \E a \in NewArticles(next_id + 1) :
          /\ file' = add(file, a).articles
          /\ next_id' = a.id
    /\ UNCHANGED <<scrapeVars, request, last, delete_calls, procs, added, deleted>>

CliNext ==
    \/ ArticleAdded
    \/ CliRead
    \/ CliUnread
    \/ CliDelete
    \/ CliTag
    \/ CliPriority
    \/ Respond

CliSpec == StorageInit /\ [][CliNext]_vars

(***************************************************************************)
(* Properties.                                                             *)
(***************************************************************************)
Extracting == entry \in {"scrape_pdf", "scrape_html", "extract_pdf_metadata"}
Ended == pc \in {"done", "failed"}
Readable(d) == ~d.corrupt /\ d.read_error = "none"
HasRecord == article # None \/ (entry = "extract_pdf_metadata" /\ pdf_meta # None)

\* the three parsing stages all fail on this reply
Unparsable(r) ==
    /\ r.whole = None
    /\ ~(r.flat.match /\ r.flat.v # None)
    /\ ~(r.greedy.match /\ r.greedy.v # None)

\* the value the first successful stage parsed (replies that are not Unparsable)
ParsedValue(r) ==
    IF r.whole # None THEN r.whole[1]
    ELSE IF r.flat.match /\ r.flat.v # None THEN r.flat.v[1]
    ELSE r.greedy.v[1]

\* the replies C1 lists: an exception, text that is no JSON, JSON that is not an
\* object, an object with missing keys
ListedReply(o) ==
    \/ o.raised
    \/ Unparsable(o.response)
    \/ ParsedValue(o.response).kind # "object"
    \/ ~(AllKeys \subseteq ParsedValue(o.response).has)

\* C1: whatever the model service replies (unreachable, exception, non-JSON
\* text, JSON that is not an object, object with missing keys), an extraction
\* whose heuristic step succeeded ends in Done with a record, never in an error.
C1_EnrichmentNeverFails ==
    (/\ Extracting
     /\ Ended
     /\ Readable(doc[1])
     /\ (gen = None \/ ListedReply(gen[1])))
        => (pc = "done" /\ err = "none" /\ HasRecord)

ServiceUnreachable == llm_probe \in {"skipped", "down"}
GenerateRaised == gen # None /\ gen[1].raised
ResponseUnparsable == gen # None /\ ~gen[1].raised /\ Unparsable(gen[1].response)

\* C2 as stated: extract_with_llm never raises, and returns None when the
\* service is unreachable or the library is missing, when the text it was given
\* has fewer than 50 characters once trimmed, when generate raises, or when no
\* parsing stage can parse the response.
C2_NoneOnFailure_AsStated ==
    llm_state = "returned" =>
       /\ llm_exc = "none"
       /\ (\/ ServiceUnreachable
           \/ TooShort(llm_text)
           \/ GenerateRaised
           \/ ResponseUnparsable) => llm_result = None

\* C2 amended: the same, the length test being made on the text after its
\* truncation to 6000 characters plus the truncation marker.
C2_NoneOnFailure ==
    llm_state = "returned" =>
       /\ llm_exc = "none"
       /\ (\/ ServiceUnreachable
           \/ StrLen(Strip(IF StrLen(llm_text) > 6000
                           THEN Concat(Slice(llm_text, 6000), TruncationMarker)
                           ELSE llm_text)) < 50
           \/ GenerateRaised
           \/ ResponseUnparsable) => llm_result = None

C2_Witness ==
    /\ llm_state = "returned"
    /\ GenerateRaised
    /\ llm_exc = "none"
    /\ llm_result = None

\* C3: every value extract_with_llm returns other than None is a key/value
\* object holding both the key "title" and the key "summary"; a response whose
\* parsed value lacks "title" or lacks "summary" gives None.
C3_ResultIsObjectWithKeys ==
    llm_state = "returned" =>
       /\ llm_result # None =>
             /\ llm_result[1].kind = "object"
             /\ {"title", "summary"} \subseteq llm_result[1].has
       /\ (/\ gen # None
           /\ ~gen[1].raised
           /\ ~Unparsable(gen[1].response)
           /\ ~({"title", "summary"} \subseteq ParsedValue(gen[1].response).has))
             => llm_result = None

\* C4: in the record extract_pdf_metadata returns, used_llm is true exactly
\* when title and summary are those of the enrichment result; without an
\* enrichment result (disabled, unreachable, None) title and summary are the
\* heuristic ones, suggested_tags is empty and used_llm is false.
C4_UsedLlmFlag ==
    pdf_meta # None =>
       LET m == pdf_meta[1]
       IN  /\ m.used_llm <=> (/\ llm_result # None
                              /\ m.title = llm_result[1].title
                              /\ m.summary = llm_result[1].summary)
           /\ llm_result = None =>
                 /\ m.title = StrVal(PdfTitle(doc[1]))
                 /\ m.summary = StrVal(Summary(FullText(doc[1])))
                 /\ m.suggested_tags = TagsVal(<<>>)
                 /\ ~m.used_llm

C4_Witness ==
    /\ pdf_meta # None
    /\ pdf_meta[1].used_llm
    /\ llm_result # None
    /\ pdf_meta[1].title # StrVal(PdfTitle(doc[1]))

SuggestedByLlm ==
    IF llm_result # None /\ llm_result[1].kind = "object"
                         /\ "suggested_tags" \in llm_result[1].has
                         /\ ~llm_result[1].tags.null
    THEN llm_result[1].tags.l
    ELSE <<>>

\* C5: on every path that ends in Done the tags of the article are merge_tags
\* of the caller's tags and the suggested tags (none: the empty list); the
\* article never has more than 6 tags.
C5_TagsAlwaysMerged ==
    (pc = "done" /\ article # None) =>
       /\ article[1].tags = merge_tags(user_tags, SuggestedByLlm)
       /\ Len(article[1].tags) <= 6

ModelServiceCalled == probes > 0 \/ generates > 0

C7_AtMostSixTags ==
    merge_call.called => Len(merge_call.result) <= 6

C7_Witness ==
    /\ merge_call.called
    /\ Len(merge_call.user) < 6
    /\ Len(merge_call.user) + Len(merge_call.suggested) > 6
    /\ Len(merge_call.result) = 6

SameIgnoringCase(s, t) == str_lower(s) = str_lower(t)

\* C8: no two entries of the list merge_tags returns are equal ignoring case,
\* for every pair of input lists.
C8_NoCaseDuplicates ==
    merge_call.called =>
       \A i, j \in 1..Len(merge_call.result) :
          i # j => ~SameIgnoringCase(merge_call.result[i], merge_call.result[j])

Prefix(s, n) == SubSeq(s, 1, Min(n, Len(s)))

\* C9 as stated: all the user tags are in the output of merge_tags, in their
\* input order and letter case, ahead of every suggested tag.
C9_UserTagsKept_AsStated ==
    merge_call.called =>
       /\ Len(merge_call.result) >= Len(merge_call.user)
       /\ Prefix(merge_call.result, Len(merge_call.user)) = merge_call.user

\* C9 amended: the output of merge_tags starts with the first 6 user tags (all
\* of them when there are at most 6), in their input order and letter case;
\* suggested tags come only after them.
C9_UserTagsKept ==
    merge_call.called =>
       LET kept == Min(6, Len(merge_call.user))
       IN  /\ Len(merge_call.result) >= kept
           /\ Prefix(merge_call.result, kept) = Prefix(merge_call.user, 6)

C9_Witness ==
    /\ merge_call.called
    /\ Len(merge_call.user) > 6
    /\ merge_call.suggested # <<>>
    /\ merge_call.result = Prefix(merge_call.user, 6)

SourceText == IF doc[1].kind = "pdf" THEN FullText(doc[1]) ELSE doc[1].extracted

FinalSummary ==
    IF article # None THEN article[1].summary ELSE pdf_meta[1].summary.s

\* C10: for every extraction that ends in Done the summary has at most 203
\* characters and ends with "..." exactly when the whitespace-normalized source
\* text is longer than 200 characters.
C10_SummaryLength ==
    (Extracting /\ pc = "done" /\ HasRecord) =>
       /\ StrLen(FinalSummary) <= 203
       /\ EndsWith(FinalSummary, Ellipsis) <=> StrLen(clean_text(SourceText)) > 200

\* C11: every metadata record a Done extraction produced has a non-empty
\* title, whether the title came from the enrichment or from the heuristics.
C11_TitleNonEmpty ==
    (Extracting /\ pc = "done") =>
       /\ article # None => article[1].title # <<>>
       /\ pdf_meta # None => (~pdf_meta[1].title.null /\ pdf_meta[1].title.s # <<>>)

\* C12: every pymupdf document opened during an extraction is closed on every
\* exit path, exits by an exception raised while reading pages or text blocks
\* included: no end state (Done or Failed) has an open document.
C12_HandlesClosed == Ended => fitz_open = 0

\* a string as the sequence of its characters
RECURSIVE Chars(_)
Chars(s) ==
    IF s = <<>> THEN <<>>
    ELSE [i \in 1..Head(s).n |-> Head(s).c] \o Chars(Tail(s))

\* pattern (in lower case) stands in chars after the first k characters, letters
\* compared ignoring case
MatchesAt(chars, k, pattern) ==
    /\ k + Len(pattern) <= Len(chars)
    /\ \A j \in 1..Len(pattern) : LowerChar(chars[k + j]) = pattern[j]

PathSaysPdf(path) ==
    LET c == Chars(path)
    IN  Len(c) >= 4 /\ MatchesAt(c, Len(c) - 4, <<".", "p", "d", "f">>)

TypeSaysPdf(content_type) ==
    /\ content_type # None
    /\ LET c == Chars(content_type[1])
       IN  \E k \in 0..Len(c) :
              MatchesAt(c, k, <<"a", "p", "p", "l", "i", "c", "a", "t", "i", "o", "n",
                                "/", "p", "d", "f">>)

\* C13: is_pdf_url answers PDF when the URL path ends with ".pdf" ignoring
\* case, otherwise PDF when the content type contains "application/pdf"
\* ignoring case, otherwise HTML (an empty or absent content type included);
\* it answers for every input.
C13_PdfClassification ==
    is_pdf # None =>
       is_pdf[1].result = (\/ PathSaysPdf(is_pdf[1].path)
                           \/ TypeSaysPdf(is_pdf[1].content_type))

\* the content type alone, written in upper case, makes a URL a PDF
C13_Witness ==
    /\ is_pdf # None
    /\ ~PathSaysPdf(is_pdf[1].path)
    /\ is_pdf[1].content_type # None
    /\ str_lower(is_pdf[1].content_type[1]) # is_pdf[1].content_type[1]
    /\ is_pdf[1].result = TRUE

IsDigit(c) == c \in {"0", "1", "2", "3", "4", "5", "6", "7", "8", "9"}

\* the characters of a creation date after its optional "D:"
AfterPrefix(chars) ==
    IF Len(chars) >= 2 /\ chars[1] = "D" /\ chars[2] = ":"
    THEN SubSeq(chars, 3, Len(chars)) ELSE chars

\* the PDF date convention: eight leading digits after the optional prefix
FollowsConvention(creationDate) ==
    /\ creationDate # None
    /\ LET c == AfterPrefix(Chars(creationDate[1]))
       IN  Len(c) >= 8 /\ \A i \in 1..8 : IsDigit(c[i])

YearMonthDay(c) == Lit(<<c[1], c[2], c[3], c[4], "-", c[5], c[6], "-", c[7], c[8]>>)

\* C14: extract_pdf_date returns YYYY-MM-DD when creationDate follows the PDF
\* date convention, and None when creationDate is absent or malformed (does not
\* start with eight digits after the optional "D:").
C14_PdfDate ==
    pdf_date # None =>
       IF FollowsConvention(pdf_date[1].creationDate)
       THEN pdf_date[1].result =
                Some(YearMonthDay(AfterPrefix(Chars(pdf_date[1].creationDate[1]))))
       ELSE pdf_date[1].result = None

EnrichmentAbsent == ~Truthy(llm_result)
Heuristic(e) == entry \in e /\ pc = "done" /\ EnrichmentAbsent

\* the title of the record a Done extraction returned
FinalTitle == IF article # None THEN article[1].title ELSE pdf_meta[1].title.s

\* a text block the heading heuristic accepts
Qualifies(block) ==
    /\ block # <<>>
    /\ StrLen(clean_text(block)) > 5
    /\ StrLen(clean_text(block)) < 200

\* the blocks of the first page that qualify among its first n
Qualifying(d, n) ==
    IF Len(d.pages) = 0 THEN {}
    ELSE {i \in 1..Min(n, Len(d.blocks)) : Qualifies(d.blocks[i])}

First(S) == CHOOSE i \in S : \A j \in S : i <= j

NoTitleSource(d) ==
    /\ clean_text(d.meta_title) = <<>>
    /\ IF d.kind = "pdf"
       THEN Qualifying(d, Len(d.blocks)) = {} /\ d.url.stem = <<>>
       ELSE \A i \in 1..Len(d.titles) : clean_text(d.titles[i].text) = <<>>

\* the host of the URL with one leading "www." removed
HostDomain(url) ==
    LET c == Chars(url.host)
    IN  IF Len(c) >= 4 /\ SubSeq(c, 1, 4) = <<"w", "w", "w", ".">>
        THEN Lit(SubSeq(c, 5, Len(c))) ELSE url.host

\* C15: a document with no title source at all (no metadata title, no usable
\* heading or <title> tag, no file name in the URL, no enrichment) gets the
\* title "Article from {domain}" (HTML) or "PDF from {domain}" (PDF), the
\* domain being the host of the URL with one leading "www." removed.
C15_FallbackTitle ==
    (Heuristic({"scrape_pdf", "scrape_html", "extract_pdf_metadata"})
        /\ NoTitleSource(doc[1]))
    => FinalTitle = Concat(IF doc[1].kind = "pdf" THEN PdfFrom ELSE ArticleFrom,
                           HostDomain(doc[1].url))

\* the normalized text of the first <title> element of the page
FirstTitleText(d) ==
    IF d.titles = <<>> THEN <<>> ELSE clean_text(d.titles[1].text)

\* C16 as stated: with enrichment absent the HTML title is the first non-empty
\* of the structured-metadata title, the normalized text of the first <title>
\* element (in any case) and "Article from {domain}"; so a page with a <title>
\* tag and no structured metadata has the normalized tag text as its title.
C16_HtmlTitleOrder_AsStated ==
    Heuristic({"scrape_html"}) =>
       /\ FinalTitle = OrElse(clean_text(doc[1].meta_title),
                       OrElse(FirstTitleText(doc[1]),
                              Concat(ArticleFrom, extract_domain(doc[1].url))))
       /\ (doc[1].titles # <<>> /\ doc[1].meta_title = <<>>)
             => FinalTitle = FirstTitleText(doc[1])

\* the <title> elements whose content is one or more characters other than "<"
Matchable(d) ==
    {i \in 1..Len(d.titles) :
        d.titles[i].text # <<>> /\ \A k \in 1..Len(d.titles[i].text) :
                                       d.titles[i].text[k].c # "<"}

MatchedTitleText(d) ==
    IF Matchable(d) = {} THEN <<>> ELSE clean_text(d.titles[First(Matchable(d))].text)

\* C16: with enrichment absent the HTML title is the first non-empty of the
\* normalized structured-metadata title, the normalized text of the first
\* <title> element (in any case) whose content is one or more characters other
\* than "<", and "Article from {domain}"; so a page with no structured-metadata
\* title and such an element, its text not only whitespace, has the normalized
\* text of the first such element as its title.
C16_HtmlTitleOrder ==
    Heuristic({"scrape_html"}) =>
       /\ FinalTitle = OrElse(clean_text(doc[1].meta_title),
                       OrElse(MatchedTitleText(doc[1]),
                              Concat(ArticleFrom, extract_domain(doc[1].url))))
       /\ (MatchedTitleText(doc[1]) # <<>> /\ clean_text(doc[1].meta_title) = <<>>)
             => FinalTitle = MatchedTitleText(doc[1])

\* a <TITLE> element written in upper case gave the title
C16_Witness ==
    /\ Heuristic({"scrape_html"})
    /\ doc[1].meta_title = <<>>
    /\ doc[1].titles # <<>>
    /\ doc[1].titles[1].tag # TagTitle
    /\ FinalTitle = clean_text(doc[1].titles[1].text)

\* the title the heading heuristic and its fallbacks give when the first n
\* blocks of the first page are scanned
HeadingOrFallback(d, n) ==
    IF Qualifying(d, n) # {} THEN clean_text(d.blocks[First(Qualifying(d, n))])
    ELSE OrElse(extract_filename_from_url(d.url), Concat(PdfFrom, extract_domain(d.url)))

HeuristicPdf ==
    /\ Heuristic({"scrape_pdf", "extract_pdf_metadata"})
    /\ clean_text(doc[1].meta_title) = <<>>

\* C17 as stated: with enrichment absent and no metadata title the PDF title is
\* the normalized text of the first block of the first page, all blocks scanned
\* in document order, whose normalized length is strictly between 5 and 200;
\* only when no block qualifies is it the file name of the URL, then
\* "PDF from {domain}".
C17_PdfHeading_AsStated ==
    HeuristicPdf => FinalTitle = HeadingOrFallback(doc[1], Len(doc[1].blocks))

\* C17: the same with only the first three blocks of the first page scanned.
C17_PdfHeading ==
    HeuristicPdf => FinalTitle = HeadingOrFallback(doc[1], 3)

\* the second block gave the title; the first one was too short
C17_Witness ==
    /\ HeuristicPdf
    /\ Qualifying(doc[1], 3) # {}
    /\ First(Qualifying(doc[1], 3)) > 1
    /\ FinalTitle = clean_text(doc[1].blocks[2])

StoredIds == {file[i].id : i \in 1..Len(file)}

\* C18: when add, update and delete run concurrently on the same articles
\* file, no completed operation is lost: an article whose add has returned stays
\* in the file until a delete is asked for it, and an article whose delete has
\* returned True is not in the file again.
C18_NoLostOperation ==
    /\ \A id \in added : id \notin delete_calls => id \in StoredIds
    /\ \A id \in deleted : id \notin StoredIds

Stored(articles, id) == \E i \in 1..Len(articles) : articles[i].id = id

UpdateFields == {"title", "summary", "tags", "priority", "status"}
KeptFields == {"id", "url", "source", "date_added"}

\* after is before with exactly the fields set in upd changed to their values
ChangedAsSet(before, after, upd) ==
    /\ \A f \in UpdateFields :
          IF upd[f] # None THEN after[f] = upd[f][1] ELSE after[f] = before[f]
    /\ \A f \in KeptFields : after[f] = before[f]

\* the last call was an update (or mark as read / unread) and did what C19 says
\* of a single update
UpdateFrame ==
    last.kind \in {"update", "read", "unread"} =>
       IF Stored(last.before, last.id)
       THEN /\ last.returned # None
            /\ last.status_code = 200
            /\ Len(file) = Len(last.before)
            /\ \A i \in 1..Len(file) :
                  IF last.before[i].id = last.id
                  THEN /\ ChangedAsSet(last.before[i], file[i], last.upd)
                       /\ last.returned[1] = file[i]
                  ELSE file[i] = last.before[i]
       ELSE /\ last.returned = None
            /\ last.status_code = 404
            /\ ~last.saved
            /\ file = last.before

\* the last two calls were mark as read, then kind, of the same article
ReadThen(kind) ==
    last.kind = kind /\ last.prev_kind = "read" /\ last.prev_id = last.id

ReadTwice == ReadThen("read") => file = last.before

WasUnread(articles, id) ==
    \A i \in 1..Len(articles) : articles[i].id = id => articles[i].status = "unread"

\* C19 as stated: update changes, in the article with the given id only,
\* exactly the fields explicitly set and leaves id, url, source, date_added and
\* every other article unchanged; marking an article read and then unread
\* restores its stored record; marking read twice equals marking read once; for
\* an id not stored it returns None (HTTP 404) and writes nothing.
C19_UpdateFrame_AsStated ==
    /\ UpdateFrame
    /\ ReadTwice
    /\ ReadThen("unread") => file = last.prev_before

\* C19: the same, the record being restored by read then unread when the
\* article was unread before it was marked read.
C19_UpdateFrame ==
    /\ UpdateFrame
    /\ ReadTwice
    /\ (ReadThen("unread") /\ WasUnread(last.prev_before, last.id))
          => file = last.prev_before

\* the title and the summary of the second of two articles were updated
C19_Witness ==
    /\ last.kind = "update"
    /\ last.upd.title # None
    /\ Len(last.before) = 2
    /\ last.before[2].id = last.id
    /\ file[2].title # last.before[2].title
    /\ file[1] = last.before[1]

\* file is before without its k-th record
WithoutRecord(before, k, after) ==
    /\ Len(after) = Len(before) - 1
    /\ \A i \in 1..Len(after) : after[i] = IF i < k THEN before[i] ELSE before[i + 1]

Answered == request.pc = "answered"
FetchFailed == Answered /\ pc = "idle" /\ request.refused # "none"
ExtractionFailed == Answered /\ pc = "failed"

\* C21: an article is appended to the store only after its extraction ended in
\* Done; when the fetch or the extraction fails (upstream fetch failure, corrupt
\* PDF, unsupported local file) the API answers with one 400 error or the command
\* exits with code 1, and the stored list of articles is what it was before.
C21_StoredOnlyAfterDone ==
    /\ request.pc = "fetched" => file = request.before
    /\ Answered /\ file # request.before =>
          /\ pc = "done"
          /\ Len(file) = Len(request.before) + 1
          /\ SubSeq(file, 1, Len(request.before)) = request.before
          /\ request.code = SuccessCode(request.command)
    /\ FetchFailed \/ ExtractionFailed =>
          /\ file = request.before
          /\ request.code = FailureCode(request.command)

\* a corrupt PDF is refused with 400 while the store holds an article
C21_Witness ==
    /\ ExtractionFailed
    /\ request.command = "create_article"
    /\ err = "FileDataError"
    /\ request.before # <<>>
    /\ request.code = 400

PrefixCommands == {"read", "unread", "delete", "tag", "priority"}

\* the identifier begins with the characters typed
IdStartsWith(id, typed) ==
    LET c == Chars(IdText(id))
        t == Chars(typed)
    IN  Len(t) <= Len(c) /\ SubSeq(c, 1, Len(t)) = t

\* the positions, in the list, of the articles the characters typed name
Named(articles, typed) == {i \in 1..Len(articles) : IdStartsWith(articles[i].id, typed)}

\* after is before with its k-th record removed, or with its k-th record alone
\* changed, the identifier kept
OnlyChanged(before, k, after) ==
    \/ WithoutRecord(before, k, after)
    \/ /\ Len(after) = Len(before)
       /\ after[k].id = before[k].id
       /\ \A i \in 1..Len(before) : i # k => after[i] = before[i]

\* C22: read, unread, delete, tag and priority, given an id prefix, change the
\* store only when exactly one stored article id starts with the prefix, and
\* then change only that article; with no match or with more than one match they
\* exit with code 1 and leave the store unchanged.
C22_PrefixCommands ==
    request.command \in PrefixCommands /\ request.pc = "answered" =>
        LET named == Named(request.before, request.prefix)
        IN  /\ file # request.before =>
                  /\ Cardinality(named) = 1
                  /\ \A k \in named : OnlyChanged(request.before, k, file)
            /\ Cardinality(named) # 1 =>
                  /\ request.code = 1
                  /\ file = request.before

\* of two stored articles whose identifiers begin alike, the one named by a
\* longer prefix has been changed
C22_Witness ==
    /\ request.command \in PrefixCommands
    /\ request.pc = "answered"
    /\ Len(request.before) = 2
    /\ Cardinality(Named(request.before, request.prefix)) = 1
    /\ Cardinality(Named(request.before, Slice(request.prefix, 1))) = 2
    /\ file # request.before
    /\ request.code = 0

====
